---------------------------- MODULE Spec2Model ----------------------------
(***************************************************************************)
(* Model of test_claude/trades_api.py: the CSV loaders of the three        *)
(* in-memory tables (TRADES, CLIENT_STATUS, CREDIT_LINES), the query       *)
(* handlers that read them and the reload handler that rebuilds them.      *)
(*                                                                         *)
(* Text.  A Python str is a sequence of one-character strings; words that  *)
(* hold no whitespace, digit or separator the code looks at are kept as a  *)
(* single element ("Spot", "Comercial").  The empty str is << >>.  The     *)
(* Python object None, which csv.DictReader stores for a field a short row *)
(* does not have, is the reserved value NoneVal.                           *)
(***************************************************************************)
EXTENDS Integers, Sequences, FiniteSets, TLC

VARIABLES
    fs,             \* the three CSV files beside the module, as open()/the reader see them
    TRADES,         \* global TRADES        (line 41)
    CLIENT_STATUS,  \* global CLIENT_STATUS (line 42)
    CREDIT_LINES,   \* global CREDIT_LINES  (line 43)
    pc,             \* what the process is executing: see Handler positions below
    success,        \* the value each load_*_from_csv call last returned, per table
    response,       \* what the handler that ran last returned to its caller
    published,      \* history: each table as its last completed load call left it
    srcState,       \* history: per file, "unloaded", "clean" (unchanged since its last
                    \*          completed load), "again" (unchanged over its last two
                    \*          completed loads) or "dirty" (rewritten since its last load)
    edits,          \* history: how many times the environment rewrote a file
    sg,             \* the arguments and result of a lone safe_get call
    ce              \* the argument and result of a lone credit_percentage_to_emoji call

vars == <<fs, TRADES, CLIENT_STATUS, CREDIT_LINES, pc, success, response,
          published, srcState, edits, sg, ce>>

-----------------------------------------------------------------------------
(* Text primitives                                                          *)

NoneVal == <<"<None>">>

Whitespace == {" ", "\t"}

Digits == {"0", "1", "2", "3", "4", "5", "6", "7", "8", "9"}

DigitVal(c) ==
    CASE c = "0" -> 0 [] c = "1" -> 1 [] c = "2" -> 2 [] c = "3" -> 3
      [] c = "4" -> 4 [] c = "5" -> 5 [] c = "6" -> 6 [] c = "7" -> 7
      [] c = "8" -> 8 [] c = "9" -> 9

RECURSIVE LStrip(_)
LStrip(s) ==
    IF s # << >> /\ Head(s) \in Whitespace THEN LStrip(Tail(s)) ELSE s

RECURSIVE RStrip(_)
RStrip(s) ==
    IF s # << >> /\ s[Len(s)] \in Whitespace
    THEN RStrip(SubSeq(s, 1, Len(s) - 1))
    ELSE s

\* str.strip()
Strip(s) == RStrip(LStrip(s))

\* str.lower(), one element at a time; the elements the model's texts are made of
LowerChar(c) ==
    CASE c = "OK" -> "ok" [] c = "Ok" -> "ok" [] c = "oK" -> "ok"
      [] c = "NOK" -> "nok" [] c = "Nok" -> "nok"
      [] c = "En" -> "en" [] c = "EN" -> "en"
      [] c = "Curso" -> "curso" [] c = "CURSO" -> "curso"
      [] c = "Unknown" -> "unknown"
      [] c = "NaN" -> "nan" [] c = "NAN" -> "nan"
      [] c = "Inf" -> "inf" [] c = "INF" -> "inf"
      [] c = "Infinity" -> "infinity"
      [] OTHER -> c

Lower(s) == [i \in 1..Len(s) |-> LowerChar(s[i])]

AllDigits(s) == s # << >> /\ \A i \in 1..Len(s) : s[i] \in Digits

RECURSIVE DecimalValue(_)
DecimalValue(s) ==
    IF s = << >> THEN 0
    ELSE 10 * DecimalValue(SubSeq(s, 1, Len(s) - 1)) + DigitVal(s[Len(s)])

\* str.split(sep) restricted to what the parsers below need: the pieces of s
\* between the occurrences of the one-character separator
RECURSIVE SplitOn(_, _)
SplitOn(s, sep) ==
    IF \A i \in 1..Len(s) : s[i] # sep THEN <<s>>
    ELSE LET k == CHOOSE i \in 1..Len(s) :
                      s[i] = sep /\ \A j \in 1..(i - 1) : s[j] # sep
         IN  <<SubSeq(s, 1, k - 1)>> \o SplitOn(SubSeq(s, k + 1, Len(s)), sep)

-----------------------------------------------------------------------------
(* safe_get, lines 46-51.  A row is a function from the header's column    *)
(* names to text or NoneVal.                                               *)

safe_get_no_strip(row, key, default) ==
    LET value == IF key \in DOMAIN row THEN row[key] ELSE default
    IN  IF value = NoneVal THEN default
        ELSE IF value # << >> THEN value ELSE default

safe_get(row, key, default) ==
    LET value == IF key \in DOMAIN row THEN row[key] ELSE default   \* row.get(key, default)
    IN  IF value = NoneVal THEN default
        ELSE IF value # << >> THEN Strip(value) ELSE default

-----------------------------------------------------------------------------
(* Classification glyphs, lines 53-76                                      *)

GREEN == "green"
AMBER == "amber"
RED   == "red"
WHITE == "white"

status_to_emoji(status) ==
    LET status_lower == Lower(status)
    IN  IF status_lower = <<"ok">> THEN GREEN
        ELSE IF status_lower = <<"en", " ", "curso">> THEN AMBER
        ELSE IF status_lower = <<"nok">> THEN RED
        ELSE WHITE

(* float(percentage_str), line 68.  Python's grammar for a float literal:  *)
(* surrounding whitespace is dropped, then [sign] (digits [. [digits]] |   *)
(* . digits) [(e|E) [sign] digits], or [sign] inf | infinity | nan in any  *)
(* case.  (Underscores between digits are left out: no text of the model   *)
(* has one.)  The value is mant * 10^scale, kept exact; a double holds     *)
(* every text of up to 15 significant digits on the same side of 80 and    *)
(* 100 as the exact value.                                                 *)

NotAFloat == [kind |-> "error", neg |-> FALSE, mant |-> 0, scale |-> 0]

\* the part after an optional sign, and whether the sign is "-"
Unsigned(s) == IF s # << >> /\ Head(s) \in {"+", "-"} THEN Tail(s) ELSE s
IsNegative(s) == s # << >> /\ Head(s) = "-"

\* an optional exponent part: <<mantissa text, exponent text or NoneVal>>
ExponentSplit(s) ==
    LET at == {i \in 1..Len(s) : s[i] \in {"e", "E"}}
    IN  IF at = {} THEN <<s, NoneVal>>
        ELSE LET k == CHOOSE i \in at : \A j \in at : i <= j
             IN  <<SubSeq(s, 1, k - 1), SubSeq(s, k + 1, Len(s))>>

ParseFloat(text) ==
    LET s     == Strip(text)
        neg   == IsNegative(s)
        body  == Unsigned(s)
        word  == Lower(body)
        parts == ExponentSplit(body)
        mtxt  == parts[1]
        etxt  == parts[2]
        pieces == SplitOn(mtxt, ".")
        ipart == pieces[1]
        fpart == IF Len(pieces) = 2 THEN pieces[2] ELSE << >>
        digitsOrEmpty(t) == \A i \in 1..Len(t) : t[i] \in Digits
        mantOk == /\ Len(pieces) \in {1, 2}
                  /\ digitsOrEmpty(ipart) /\ digitsOrEmpty(fpart)
                  /\ ipart \o fpart # << >>
        expOk == etxt = NoneVal \/ AllDigits(Unsigned(etxt))
        expVal == IF etxt = NoneVal THEN 0
                  ELSE IF IsNegative(etxt) THEN 0 - DecimalValue(Unsigned(etxt))
                  ELSE DecimalValue(Unsigned(etxt))
    IN  IF word = <<"nan">> THEN [NotAFloat EXCEPT !.kind = "nan", !.neg = neg]
        ELSE IF word \in {<<"inf">>, <<"infinity">>}
             THEN [NotAFloat EXCEPT !.kind = "inf", !.neg = neg]
        ELSE IF mantOk /\ expOk
             THEN [kind |-> "num", neg |-> neg,
                   mant |-> DecimalValue(ipart \o fpart),
                   scale |-> expVal - Len(fpart)]
        ELSE NotAFloat

RECURSIVE Pow10(_)
Pow10(n) == IF n <= 0 THEN 1 ELSE 10 * Pow10(n - 1)

\* x >= n for a parsed float x and a positive integer n
FloatGE(x, n) ==
    CASE x.kind = "nan" -> FALSE
      [] x.kind = "inf" -> ~x.neg
      [] OTHER -> /\ ~x.neg
                  /\ IF x.scale >= 0 THEN x.mant * Pow10(x.scale) >= n
                     ELSE x.mant >= n * Pow10(0 - x.scale)

OverLimit == 100

NearLimit == 80

credit_percentage_to_emoji(percentage_str) ==
    LET percentage == ParseFloat(percentage_str)
    IN  IF percentage.kind = "error" THEN WHITE          \* except (ValueError, TypeError)
        ELSE IF FloatGE(percentage, OverLimit) THEN RED
        ELSE IF FloatGE(percentage, NearLimit) THEN AMBER
        ELSE GREEN

-----------------------------------------------------------------------------
(* parse_date, lines 78-83: datetime.strptime(date_str, '%d/%m/%Y'), and   *)
(* datetime.min when it raises.  A datetime at midnight is the number      *)
(* year * 10000 + month * 100 + day, which orders as datetimes do.         *)

DateTime(y, m, d) == y * 10000 + m * 100 + d

datetime_min == DateTime(1, 1, 1)

IsLeap(y) == (y % 4 = 0 /\ y % 100 # 0) \/ y % 400 = 0

DaysInMonth(y, m) ==
    IF m = 2 THEN (IF IsLeap(y) THEN 29 ELSE 28)
    ELSE IF m \in {4, 6, 9, 11} THEN 30 ELSE 31

\* strptime: %d and %m take one or two digits, %Y exactly four; the fields
\* are then range-checked by the datetime constructor (year 0 is refused).
\* (%d also takes a blank followed by a digit; no trade date of the model
\* holds a blank.)
StrptimeOk(date_str) ==
    LET g == SplitOn(date_str, "/")
    IN  /\ Len(g) = 3
        /\ AllDigits(g[1]) /\ Len(g[1]) \in {1, 2}
        /\ AllDigits(g[2]) /\ Len(g[2]) \in {1, 2}
        /\ AllDigits(g[3]) /\ Len(g[3]) = 4
        /\ DecimalValue(g[3]) >= 1
        /\ DecimalValue(g[2]) \in 1..12
        /\ DecimalValue(g[1]) \in 1..DaysInMonth(DecimalValue(g[3]), DecimalValue(g[2]))

Strptime(date_str) ==
    LET g == SplitOn(date_str, "/")
    IN  DateTime(DecimalValue(g[3]), DecimalValue(g[2]), DecimalValue(g[1]))

parse_date(date_str) ==
    IF StrptimeOk(date_str) THEN Strptime(date_str) ELSE datetime_min

-----------------------------------------------------------------------------
(* Records and rows.  A str that no parser reads (an id, a name, an amount)*)
(* is written with each run of non-blank characters as one element; dates  *)
(* and percentages are written one character per element.                  *)

Kinds == <<"trades", "status", "credit">>      \* the order of lines 494-496, 556-558

KindSet == {Kinds[i] : i \in 1..Len(Kinds)}

Date(d, m, y) == d \o <<"/">> \o m \o <<"/">> \o y

\* lines 98-111
ParseTradeRow(row) ==
    [trade_number    |-> safe_get(row, "trade_number", << >>),
     client_id       |-> safe_get(row, "client_id", << >>),
     client_name     |-> safe_get(row, "client_name", << >>),
     trade_date      |-> safe_get(row, "trade_date", << >>),
     start_date      |-> safe_get(row, "start_date", << >>),
     product         |-> safe_get(row, "product", << >>),
     direction       |-> safe_get(row, "direction", << >>),
     currency_pair   |-> safe_get(row, "currency_pair", << >>),
     notional_amount |-> safe_get(row, "notional_amount", << >>),
     price           |-> safe_get(row, "price", << >>),
     spread          |-> safe_get(row, "spread", << >>),
     expiry_date     |-> safe_get(row, "expiry_date", << >>)]

\* line 114 negated: the row is appended, not skipped
TradeKeptEitherKey(trade) == ~(trade.trade_number = << >> /\ trade.client_id = << >>)

TradeKept(trade) == ~(trade.trade_number = << >> \/ trade.client_id = << >>)

\* lines 181-189
ParseStatusRow(row) ==
    [client_id         |-> safe_get(row, "client_id", << >>),
     client_name       |-> safe_get(row, "client_name", << >>),
     kyc_status        |-> safe_get(row, "kyc_status", <<"Unknown">>),
     onboarding_status |-> safe_get(row, "onboarding_status", <<"Unknown">>),
     ccg_status        |-> safe_get(row, "ccg_status", <<"Unknown">>),
     contract_status   |-> safe_get(row, "contract_status", <<"Unknown">>),
     client_status     |-> safe_get(row, "client_status", <<"Unknown">>)]

\* line 192 negated
StatusKept(status) == ~(status.client_id = << >>)

\* lines 240-252; the keys 'spot_line_%', 'fwd_line_%', 'deriv_line_%' are
\* written spot_line_pct, fwd_line_pct, deriv_line_pct
ParseCreditRow(row) ==
    [client_id           |-> safe_get(row, "client_id", << >>),
     client_name         |-> safe_get(row, "client_name", << >>),
     spot_line_approved  |-> safe_get(row, "spot_line_approved", <<"0">>),
     spot_line_used      |-> safe_get(row, "spot_line_used", <<"0">>),
     spot_line_pct       |-> safe_get(row, "spot_line_pct", <<"0">>),
     fwd_line_approved   |-> safe_get(row, "fwd_line_approved", <<"0">>),
     fwd_line_used       |-> safe_get(row, "fwd_line_used", <<"0">>),
     fwd_line_pct        |-> safe_get(row, "fwd_line_pct", <<"0">>),
     deriv_line_approved |-> safe_get(row, "deriv_line_approved", <<"0">>),
     deriv_line_used     |-> safe_get(row, "deriv_line_used", <<"0">>),
     deriv_line_pct      |-> safe_get(row, "deriv_line_pct", <<"0">>)]

\* line 255 negated
CreditKept(credit_line) == ~(credit_line.client_id = << >>)

ParseRow(k, row) ==
    CASE k = "trades" -> ParseTradeRow(row)
      [] k = "status" -> ParseStatusRow(row)
      [] k = "credit" -> ParseCreditRow(row)

Kept(k, record) ==
    CASE k = "trades" -> TradeKept(record)
      [] k = "status" -> StatusKept(record)
      [] k = "credit" -> CreditKept(record)

SampleClientId == <<"93.685.712-6">>

SampleClientName == <<"Comercial", " ", "Metropolitana", " ", "SA">>

\* lines 130-159
SampleTrades ==
    << [client_id       |-> SampleClientId,
        client_name     |-> SampleClientName,
        trade_number    |-> <<"T2025001">>,
        trade_date      |-> Date(<<"0", "6">>, <<"0", "7">>, <<"2", "0", "2", "5">>),
        start_date      |-> Date(<<"0", "6">>, <<"0", "7">>, <<"2", "0", "2", "5">>),
        product         |-> <<"Spot">>,
        direction       |-> <<"Buy">>,
        currency_pair   |-> <<"USD/CLP">>,
        notional_amount |-> <<"1000000">>,
        price           |-> <<"950.25">>,
        spread          |-> <<"2.5">>,
        expiry_date     |-> << >>],
       [client_id       |-> SampleClientId,
        client_name     |-> SampleClientName,
        trade_number    |-> <<"T2025002">>,
        trade_date      |-> Date(<<"0", "5">>, <<"0", "7">>, <<"2", "0", "2", "5">>),
        start_date      |-> Date(<<"0", "8">>, <<"0", "7">>, <<"2", "0", "2", "5">>),
        product         |-> <<"Forward">>,
        direction       |-> <<"Sell">>,
        currency_pair   |-> <<"EUR/CLP">>,
        notional_amount |-> <<"500000">>,
        price           |-> <<"1025.80">>,
        spread          |-> <<"3.0">>,
        expiry_date     |-> Date(<<"0", "8">>, <<"0", "8">>, <<"2", "0", "2", "5">>)] >>

\* lines 208-218
SampleStatus ==
    << [client_id         |-> SampleClientId,
        client_name       |-> SampleClientName,
        kyc_status        |-> <<"OK">>,
        onboarding_status |-> <<"En", " ", "Curso">>,
        ccg_status        |-> <<"OK">>,
        contract_status   |-> <<"NOK">>,
        client_status     |-> <<"En", " ", "Curso">>] >>

\* lines 271-285
SampleCredit ==
    << [client_id           |-> SampleClientId,
        client_name         |-> SampleClientName,
        spot_line_approved  |-> <<"1000000">>,
        spot_line_used      |-> <<"750000">>,
        spot_line_pct       |-> <<"7", "5">>,
        fwd_line_approved   |-> <<"500000">>,
        fwd_line_used       |-> <<"425000">>,
        fwd_line_pct        |-> <<"8", "5">>,
        deriv_line_approved |-> <<"200000">>,
        deriv_line_used     |-> <<"210000">>,
        deriv_line_pct      |-> <<"1", "0", "5">>] >>

Sample(k) ==
    CASE k = "trades" -> SampleTrades
      [] k = "status" -> SampleStatus
      [] k = "credit" -> SampleCredit

-----------------------------------------------------------------------------
(* Query functions: what each handler computes from the table it reads     *)

PageSize == 5

Take(s, n) == SubSeq(s, 1, IF Len(s) < n THEN Len(s) ELSE n)

\* list.sort(key=lambda x: parse_date(x['trade_date']), reverse=True), line 340.
\* The key of each element is computed once; the sort is stable, and with
\* reverse=True elements with equal keys keep their original order: an element
\* is placed after every element already there whose key is greater than or
\* equal to its own.
RECURSIVE WithDateKey(_)
WithDateKey(s) ==
    IF s = << >> THEN << >>
    ELSE Append(WithDateKey(SubSeq(s, 1, Len(s) - 1)),
                [key |-> parse_date(s[Len(s)].trade_date), item |-> s[Len(s)]])

InsertByKey(sorted, x) ==
    LET n == Cardinality({i \in 1..Len(sorted) : sorted[i].key >= x.key})
    IN  SubSeq(sorted, 1, n) \o <<x>> \o SubSeq(sorted, n + 1, Len(sorted))

RECURSIVE SortByKey(_)
SortByKey(s) ==
    IF s = << >> THEN << >>
    ELSE InsertByKey(SortByKey(SubSeq(s, 1, Len(s) - 1)), s[Len(s)])

RECURSIVE Items(_)
Items(s) == IF s = << >> THEN << >> ELSE <<Head(s).item>> \o Items(Tail(s))

SortByDate(s) == Items(SortByKey(WithDateKey(s)))

\* the slip of trimming the requested id before comparing
ClientTradesTrimmed(table, client_id) ==
    SelectSeq(table, LAMBDA trade : trade.client_id = Strip(client_id))

\* line 332
ClientTrades(table, client_id) ==
    SelectSeq(table, LAMBDA trade : trade.client_id = client_id)

NotFound == 404

Ok == 200

\* lines 331-349
TradesResponse(table, client_id) ==
    LET client_trades == ClientTrades(table, client_id)
    IN  IF client_trades = << >>
        THEN [op |-> "trades", client_id |-> client_id, code |-> NotFound, body |-> << >>]
        ELSE [op |-> "trades", client_id |-> client_id, code |-> Ok,
              body |-> Take(SortByDate(client_trades), PageSize)]

\* the last row with the client id: a plausible slip of the loop of lines 359-362
LastMatch(table, client_id) ==
    LET at == {i \in 1..Len(table) : table[i].client_id = client_id}
    IN  IF at = {} THEN << >>
        ELSE <<table[CHOOSE i \in at : \A j \in at : i >= j]>>

\* lines 357-362: the first row with the client id, or none
FirstMatch(table, client_id) ==
    LET at == {i \in 1..Len(table) : table[i].client_id = client_id}
    IN  IF at = {} THEN << >>
        ELSE <<table[CHOOSE i \in at : \A j \in at : i <= j]>>

\* lines 367-375
UnknownStatus(client_id) ==
    [client_id         |-> client_id,
     client_name       |-> <<"Unknown">>,
     kyc_status        |-> <<"Unknown">>,
     onboarding_status |-> <<"Unknown">>,
     ccg_status        |-> <<"Unknown">>,
     contract_status   |-> <<"Unknown">>,
     client_status     |-> <<"Unknown">>]

\* lines 378-392
StatusWithEmojis(client_status) ==
    [client_id         |-> client_status.client_id,
     client_name       |-> client_status.client_name,
     kyc_status        |-> client_status.kyc_status,
     kyc_emoji         |-> status_to_emoji(client_status.kyc_status),
     onboarding_status |-> client_status.onboarding_status,
     onboarding_emoji  |-> status_to_emoji(client_status.onboarding_status),
     ccg_status        |-> client_status.ccg_status,
     ccg_emoji         |-> status_to_emoji(client_status.ccg_status),
     contract_status   |-> client_status.contract_status,
     contract_emoji    |-> status_to_emoji(client_status.contract_status),
     client_status     |-> client_status.client_status,
     client_emoji      |-> status_to_emoji(client_status.client_status),
     status_line       |-> <<status_to_emoji(client_status.kyc_status), "KYC",
                             status_to_emoji(client_status.onboarding_status), "Onboarding",
                             status_to_emoji(client_status.ccg_status), "CCG",
                             status_to_emoji(client_status.contract_status), "Contract",
                             status_to_emoji(client_status.client_status), "Client">>]

\* lines 357-396
StatusResponse(table, client_id) ==
    LET found == FirstMatch(table, client_id)
        client_status == IF found = << >> THEN UnknownStatus(client_id) ELSE found[1]
    IN  [op |-> "status", client_id |-> client_id, code |-> Ok,
         body |-> StatusWithEmojis(client_status)]

\* the slip of leaving the percentages of the placeholder empty
UnknownCreditBlank(client_id) ==
    [client_id           |-> client_id,
     client_name         |-> <<"Unknown">>,
     spot_line_approved  |-> <<"0">>,
     spot_line_used      |-> <<"0">>,
     spot_line_pct       |-> << >>,
     fwd_line_approved   |-> <<"0">>,
     fwd_line_used       |-> <<"0">>,
     fwd_line_pct        |-> << >>,
     deriv_line_approved |-> <<"0">>,
     deriv_line_used     |-> <<"0">>,
     deriv_line_pct      |-> << >>]

\* lines 414-426
UnknownCredit(client_id) ==
    [client_id           |-> client_id,
     client_name         |-> <<"Unknown">>,
     spot_line_approved  |-> <<"0">>,
     spot_line_used      |-> <<"0">>,
     spot_line_pct       |-> <<"0">>,
     fwd_line_approved   |-> <<"0">>,
     fwd_line_used       |-> <<"0">>,
     fwd_line_pct        |-> <<"0">>,
     deriv_line_approved |-> <<"0">>,
     deriv_line_used     |-> <<"0">>,
     deriv_line_pct      |-> <<"0">>]

\* lines 429-449
CreditWithEmojis(client_credit) ==
    LET spot_pct  == client_credit.spot_line_pct
        fwd_pct   == client_credit.fwd_line_pct
        deriv_pct == client_credit.deriv_line_pct
    IN  [client_id           |-> client_credit.client_id,
         client_name         |-> client_credit.client_name,
         spot_line_approved  |-> client_credit.spot_line_approved,
         spot_line_used      |-> client_credit.spot_line_used,
         spot_line_pct       |-> spot_pct,
         spot_emoji          |-> credit_percentage_to_emoji(spot_pct),
         fwd_line_approved   |-> client_credit.fwd_line_approved,
         fwd_line_used       |-> client_credit.fwd_line_used,
         fwd_line_pct        |-> fwd_pct,
         fwd_emoji           |-> credit_percentage_to_emoji(fwd_pct),
         deriv_line_approved |-> client_credit.deriv_line_approved,
         deriv_line_used     |-> client_credit.deriv_line_used,
         deriv_line_pct      |-> deriv_pct,
         deriv_emoji         |-> credit_percentage_to_emoji(deriv_pct),
         credit_line         |-> <<credit_percentage_to_emoji(spot_pct), "Spot", spot_pct,
                                   credit_percentage_to_emoji(fwd_pct), "Fwd", fwd_pct,
                                   credit_percentage_to_emoji(deriv_pct), "Derivados",
                                   deriv_pct>>]

\* lines 404-453
CreditResponse(table, client_id) ==
    LET found == FirstMatch(table, client_id)
        client_credit == IF found = << >> THEN UnknownCredit(client_id) ELSE found[1]
    IN  [op |-> "credit", client_id |-> client_id, code |-> Ok,
         body |-> CreditWithEmojis(client_credit)]

-----------------------------------------------------------------------------
(* The files.  A file is absent (open raises FileNotFoundError), present   *)
(* but not openable (open raises another error), or holds the rows that    *)
(* csv.DictReader yields; a corrupt file makes the reader raise (a decoding*)
(* or csv error) once `at` rows have been yielded.                         *)

MissingFile    == [exists |-> FALSE, readable |-> FALSE, rows |-> << >>,
                   corrupt |-> FALSE, at |-> 0]

UnreadableFile == [exists |-> TRUE, readable |-> FALSE, rows |-> << >>,
                   corrupt |-> FALSE, at |-> 0]

File(rows) == [exists |-> TRUE, readable |-> TRUE, rows |-> rows,
               corrupt |-> FALSE, at |-> 0]

CorruptFile(rows, n) == [exists |-> TRUE, readable |-> TRUE, rows |-> rows,
                         corrupt |-> TRUE, at |-> n]

D1 == Date(<<"0", "6">>, <<"0", "7">>, <<"2", "0", "2", "5">>)     \* 06/07/2025
D1short == Date(<<"6">>, <<"7">>, <<"2", "0", "2", "5">>)          \* 6/7/2025, the same day
D2 == Date(<<"0", "5">>, <<"0", "7">>, <<"2", "0", "2", "5">>)     \* 05/07/2025
DMin == Date(<<"0", "1">>, <<"0", "1">>, <<"0", "0", "0", "1">>)   \* 01/01/0001
DBad == Date(<<"3", "1">>, <<"0", "2">>, <<"2", "0", "2", "5">>)   \* 31/02/2025: no such day

\* a row of trades.csv with all twelve columns; blanks around some fields,
\* an empty spread, and no expiry_date field on the line (None)
TradeRow(trade_number, client_id, trade_date) ==
    [trade_number    |-> trade_number,
     client_id       |-> client_id,
     client_name     |-> <<" ", "Acme", " ", "SA", " ">>,
     trade_date      |-> trade_date,
     start_date      |-> <<" ">> \o trade_date,
     product         |-> <<"Spot">>,
     direction       |-> <<"Buy", "\t">>,
     currency_pair   |-> <<"USD/CLP">>,
     notional_amount |-> <<"1000000">>,
     price           |-> <<"950.25">>,
     spread          |-> << >>,
     expiry_date     |-> NoneVal]

\* a row of a trades.csv whose header has four columns only
NarrowTradeRow(trade_number, client_id, trade_date) ==
    [trade_number |-> trade_number, client_id |-> client_id,
     trade_date |-> trade_date, product |-> <<"Forward">>]

MixedTradeRows ==
    << TradeRow(<<"T1">>, <<" ", "A", " ">>, D2 \o <<" ">>),
       TradeRow(<< >>, <<"A">>, D1),                  \* no trade number
       TradeRow(<<"T3">>, <<" ", "\t">>, D1),         \* a blank client id
       TradeRow(<<"T4">>, <<"A">>, D1),
       TradeRow(NoneVal, NoneVal, NoneVal) >>         \* an empty line's worth of fields

ManyTradeRows ==
    << TradeRow(<<"T1">>, <<"A">>, D2),
       TradeRow(<<"T2">>, <<"A">>, DBad),
       TradeRow(<<"T3">>, <<"A">>, D1),
       TradeRow(<<"T4">>, <<"A">>, DMin),
       TradeRow(<<"T5">>, <<"A">>, D1short),
       TradeRow(<<"T6">>, <<"A">>, D2) >>

TradeFiles ==
    { MissingFile, UnreadableFile, File(<< >>),
      File(MixedTradeRows), CorruptFile(MixedTradeRows, 4),
      File(<< NarrowTradeRow(<<"T7">>, <<"B">>, << >>) >>),
      File(ManyTradeRows) }

StatusRow(client_id, kyc, onboarding, ccg, contract, client) ==
    [client_id |-> client_id, client_name |-> <<"Acme", " ", "SA">>,
     kyc_status |-> kyc, onboarding_status |-> onboarding, ccg_status |-> ccg,
     contract_status |-> contract, client_status |-> client]

MixedStatusRows ==
    << StatusRow(<<"A", " ">>, <<"OK">>, <<" ", "En", " ", "Curso">>, <<"nok">>,
                 << >>, <<" ">>),
       StatusRow(<< >>, <<"OK">>, <<"OK">>, <<"OK">>, <<"OK">>, <<"OK">>),
       StatusRow(<<"A">>, <<"NOK">>, <<"NOK">>, <<"NOK">>, <<"NOK">>, <<"NOK">>),
       StatusRow(<<"B">>, <<"Ok">>, NoneVal, NoneVal, NoneVal, NoneVal) >>

StatusFiles ==
    { MissingFile, UnreadableFile,
      File(MixedStatusRows), CorruptFile(MixedStatusRows, 0),
      File(<< [client_id |-> <<"B">>, kyc_status |-> <<"EN", " ", "CURSO">>] >>) }

CreditRow(client_id, spot_pct, fwd_pct, deriv_pct) ==
    [client_id |-> client_id, client_name |-> <<"Acme", " ", "SA">>,
     spot_line_approved |-> <<"1000000">>, spot_line_used |-> <<" ", "750000">>,
     spot_line_pct |-> spot_pct,
     fwd_line_approved |-> <<"500000">>, fwd_line_used |-> << >>,
     fwd_line_pct |-> fwd_pct,
     deriv_line_approved |-> NoneVal, deriv_line_used |-> NoneVal,
     deriv_line_pct |-> deriv_pct]

MixedCreditRows ==
    << CreditRow(<<"\t">>, <<"1", "0">>, <<"2", "0">>, <<"3", "0">>),
       CreditRow(<<"A">>, <<"7", "9", ".", "9">>, <<" ", "8", "0">>, <<"1", "0", "0">>),
       CreditRow(<<"A">>, <<"0">>, <<"0">>, <<"0">>),
       CreditRow(<<"B">>, << >>, <<"abc">>, NoneVal) >>

CreditFiles ==
    { MissingFile, UnreadableFile, File(MixedCreditRows),
      CorruptFile(MixedCreditRows, 2) }

Files(k) ==
    CASE k = "trades" -> TradeFiles
      [] k = "status" -> StatusFiles
      [] k = "credit" -> CreditFiles

\* the client ids a request may carry: a path segment, never empty
ClientIds == {<<"A">>, <<" ", "A", " ">>, <<"B">>, <<"a">>, SampleClientId}

-----------------------------------------------------------------------------
(* health_check, lines 314-323, and get_stats, lines 508-549.  The         *)
(* timestamp of health_check is the clock's and is left out.  A dict is a  *)
(* function; avg_trades_per_client, a float rounded to 2 places, is kept   *)
(* in hundredths.                                                          *)

HealthResponse(trades, statuses, credit_lines) ==
    [op |-> "health", client_id |-> << >>, code |-> Ok,
     body |-> [status |-> "healthy",
               total_trades |-> Len(trades),
               total_client_statuses |-> Len(statuses),
               total_credit_lines |-> Len(credit_lines)]]

\* the keys of client_counts in the order the loop of lines 532-534 inserts
\* them: each client id where it first occurs
RECURSIVE FirstSeen(_)
FirstSeen(trades) ==
    IF trades = << >> THEN << >>
    ELSE LET before == FirstSeen(SubSeq(trades, 1, Len(trades) - 1))
             client_id == trades[Len(trades)].client_id
         IN  IF \E i \in 1..Len(before) : before[i] = client_id THEN before
             ELSE Append(before, client_id)

\* client_counts.items(), each with its count as the sort key
ClientCounts(trades) ==
    LET ids == FirstSeen(trades)
    IN  [i \in 1..Len(ids) |->
            LET n == Cardinality({j \in 1..Len(trades) : trades[j].client_id = ids[i]})
            IN  [key |-> n, item |-> <<ids[i], n>>]]

\* round(n / m, 2) in hundredths, a tie going to the even hundredth
RoundedAverage(n, m) ==
    LET q == (100 * n) \div m
        r == (100 * n) % m
    IN  IF 2 * r > m \/ (2 * r = m /\ q % 2 = 1) THEN q + 1 ELSE q

TopClients == 5

\* lines 542-547: one dict of counts per status field
StatusBreakdown(statuses) ==
    [field \in {"kyc_status", "onboarding_status", "ccg_status", "contract_status",
                "client_status"} |->
        [value \in {statuses[i][field] : i \in 1..Len(statuses)} |->
            Cardinality({i \in 1..Len(statuses) : statuses[i][field] = value})]]

StatsResponse(trades, statuses, credit_lines) ==
    IF trades = << >> /\ statuses = << >>
    THEN [op |-> "stats", client_id |-> << >>, code |-> Ok,
          body |-> [message |-> "No data loaded"]]
    ELSE LET client_counts == ClientCounts(trades)
         IN  [op |-> "stats", client_id |-> << >>, code |-> Ok,
              body |->
                [trades |->
                    IF trades = << >>
                    THEN [total_trades |-> 0,
                          unique_clients_with_trades |-> 0,
                          avg_trades_per_client |-> 0]
                    ELSE [total_trades |-> Len(trades),
                          unique_clients_with_trades |-> Len(client_counts),
                          avg_trades_per_client |->
                              RoundedAverage(Len(trades), Len(client_counts)),
                          clients_with_most_trades |->
                              Take(Items(SortByKey(client_counts)), TopClients)],
                 status |->
                    [total_statuses |-> Len(statuses),
                     status_breakdown |->
                         IF statuses = << >> THEN << >> ELSE StatusBreakdown(statuses)],
                 credit |-> [total_credit_lines |-> Len(credit_lines)]]]

-----------------------------------------------------------------------------
(* The process.  pc.at is "main" while lines 556-558 run, "reload" while   *)
(* reload_data runs and "idle" while the event loop waits for a request;   *)
(* pc.load is the load call in progress (an index of Kinds), pc.step its   *)
(* position ("open": about to open the file, "read": in the row loop) and  *)
(* pc.pos the number of rows the reader has yielded.                       *)

MaxEdits == 2

Idle == [at |-> "idle", load |-> 0, step |-> "none", pos |-> 0]

NoResponse == [op |-> "none", client_id |-> << >>, code |-> Ok, body |-> << >>]

NoClassification == [of |-> [kind |-> "none"], percentage_str |-> << >>,
                     called |-> FALSE, out |-> << >>]

NoCall == [key |-> "", value |-> << >>, present |-> FALSE, default |-> << >>,
           called |-> FALSE, out |-> << >>]

Table(k) ==
    CASE k = "trades" -> TRADES
      [] k = "status" -> CLIENT_STATUS
      [] k = "credit" -> CREDIT_LINES

\* SetEveryTable is the slip of a loader that resets the other two globals too
SetEveryTable(k, table) ==
    /\ TRADES'        = IF k = "trades" THEN table ELSE << >>
    /\ CLIENT_STATUS' = IF k = "status" THEN table ELSE << >>
    /\ CREDIT_LINES'  = IF k = "credit" THEN table ELSE << >>

\* `global TRADES` (lines 87, 170, 229): a loader assigns its own table only
SetTable(k, table) ==
    /\ TRADES'        = IF k = "trades" THEN table ELSE TRADES
    /\ CLIENT_STATUS' = IF k = "status" THEN table ELSE CLIENT_STATUS
    /\ CREDIT_LINES'  = IF k = "credit" THEN table ELSE CREDIT_LINES

Loading(k) == pc.at \in {"main", "reload"} /\ Kinds[pc.load] = k

\* Every handler is a coroutine without an await, and lines 556-558 run
\* before uvicorn.run: the event loop starts a handler only when no other
\* code of the module is running.
HandlerMayInterleave == pc.at # "main"

HandlerMayRun == pc.at = "idle"

\* lines 498-506, from the three return values and the tables as they then are
ReloadResponse(ret, trades, statuses, credit_lines) ==
    [op |-> "reload", client_id |-> << >>, code |-> Ok,
     body |-> [trades_success |-> ret["trades"],
               status_success |-> ret["status"],
               credit_success |-> ret["credit"],
               total_trades |-> Len(trades),
               total_statuses |-> Len(statuses),
               total_credit_lines |-> Len(credit_lines)]]

\* the load call of table k returns ret, leaving the table as `table`; the
\* caller goes on to its next statement
Return(k, table, ret) ==
    /\ SetTable(k, table)
    /\ success' = [success EXCEPT ![k] = ret]
    /\ published' = [published EXCEPT ![k] = table]
    /\ srcState' = [srcState EXCEPT ![k] = IF @ \in {"clean", "again"} THEN "again"
                                            ELSE "clean"]
    /\ pc' = IF pc.load < Len(Kinds)
             THEN [pc EXCEPT !.load = @ + 1, !.step = "open", !.pos = 0]
             ELSE Idle
    /\ response' = IF pc.load = Len(Kinds) /\ pc.at = "reload"
                   THEN ReloadResponse(success', TRADES', CLIENT_STATUS', CREDIT_LINES')
                   ELSE response
    /\ UNCHANGED <<fs, edits, sg, ce>>

\* `TRADES = []`, lines 94, 177, 236; KeptTable is the slip of leaving it out
KeptTable(k) == Table(k)

FreshTable(k) == << >>

\* `TRADES = []` of the handler of any other exception, lines 163-166, 222-225,
\* 289-292; PartialTable is the slip of leaving it out
PartialTable(k) == Table(k)

ErrorTable(k) == << >>

\* lines 90-94 and the handlers of lines 127-166 (and their copies)
LoadOpen(k) ==
    /\ Loading(k)
    /\ pc.step = "open"
    /\ IF ~fs[k].exists THEN Return(k, Sample(k), FALSE)
       ELSE IF ~fs[k].readable THEN Return(k, ErrorTable(k), FALSE)
       ELSE /\ SetTable(k, FreshTable(k))
            /\ pc' = [pc EXCEPT !.step = "read", !.pos = 0]
            /\ UNCHANGED <<fs, success, response, published, srcState, edits, sg, ce>>

\* one turn of the loop of lines 96-122, or its end (lines 124-125), or the
\* reader raising (lines 163-166)
LoadRow(k) ==
    /\ Loading(k)
    /\ pc.step = "read"
    /\ IF fs[k].corrupt /\ pc.pos = fs[k].at THEN Return(k, ErrorTable(k), FALSE)
       ELSE IF pc.pos < Len(fs[k].rows)
       THEN LET record == ParseRow(k, fs[k].rows[pc.pos + 1])
            IN  /\ SetTable(k, IF Kept(k, record) THEN Append(Table(k), record)
                               ELSE Table(k))
                /\ pc' = [pc EXCEPT !.pos = @ + 1]
                /\ UNCHANGED <<fs, success, response, published, srcState, edits, sg, ce>>
       ELSE Return(k, Table(k), TRUE)

\* GET /reload arrives: reload_data starts (line 494)
Reload ==
    /\ HandlerMayRun
    /\ pc' = [at |-> "reload", load |-> 1, step |-> "open", pos |-> 0]
    /\ response' = NoResponse
    /\ UNCHANGED <<fs, TRADES, CLIENT_STATUS, CREDIT_LINES, success, published,
                   srcState, edits, sg, ce>>

\* SortedInPlace is the slip of sorting the shared list: TRADES.sort(...)
SortedInPlace(table, client_id) ==
    IF ClientTrades(table, client_id) = << >> THEN table ELSE SortByDate(table)

\* client_trades is a list of its own (line 332): sorting it (line 340) and
\* slicing it (line 345) leave the list TRADES and its records as they are
AfterSort(table, client_id) == table

\* GET /trades/{client_id}
GetClientTrades(client_id) ==
    /\ HandlerMayRun
    /\ response' = TradesResponse(TRADES, client_id)
    /\ TRADES' = AfterSort(TRADES, client_id)
    /\ UNCHANGED <<fs, CLIENT_STATUS, CREDIT_LINES, pc, success, published,
                   srcState, edits, sg, ce>>

\* GET /status/{client_id}
GetClientStatus(client_id) ==
    /\ HandlerMayRun
    /\ response' = StatusResponse(CLIENT_STATUS, client_id)
    /\ UNCHANGED <<fs, TRADES, CLIENT_STATUS, CREDIT_LINES, pc, success, published,
                   srcState, edits, sg, ce>>

\* GET /credit/{client_id}
GetClientCreditLines(client_id) ==
    /\ HandlerMayRun
    /\ response' = CreditResponse(CREDIT_LINES, client_id)
    /\ UNCHANGED <<fs, TRADES, CLIENT_STATUS, CREDIT_LINES, pc, success, published,
                   srcState, edits, sg, ce>>

\* GET /health
HealthCheck ==
    /\ HandlerMayRun
    /\ response' = HealthResponse(TRADES, CLIENT_STATUS, CREDIT_LINES)
    /\ UNCHANGED <<fs, TRADES, CLIENT_STATUS, CREDIT_LINES, pc, success, published,
                   srcState, edits, sg, ce>>

\* GET /stats
GetStats ==
    /\ HandlerMayRun
    /\ response' = StatsResponse(TRADES, CLIENT_STATUS, CREDIT_LINES)
    /\ UNCHANGED <<fs, TRADES, CLIENT_STATUS, CREDIT_LINES, pc, success, published,
                   srcState, edits, sg, ce>>

\* The environment replaces a CSV file, before the process starts or while it
\* waits for a request.
EditFile(k, file) ==
    /\ pc.at = "idle" \/ (pc.at = "main" /\ pc.load = 1 /\ pc.step = "open")
    /\ edits < MaxEdits
    /\ file # fs[k]
    /\ fs' = [fs EXCEPT ![k] = file]
    /\ srcState' = [srcState EXCEPT ![k] = IF @ = "unloaded" THEN @ ELSE "dirty"]
    /\ edits' = edits + 1
    /\ UNCHANGED <<TRADES, CLIENT_STATUS, CREDIT_LINES, pc, success, response,
                   published, sg, ce>>

\* the module as imported (lines 41-43), no CSV file in place, line 556 next
Init ==
    /\ fs = [k \in KindSet |-> MissingFile]
    /\ TRADES = << >>
    /\ CLIENT_STATUS = << >>
    /\ CREDIT_LINES = << >>
    /\ pc = [at |-> "main", load |-> 1, step |-> "open", pos |-> 0]
    /\ success = [k \in KindSet |-> FALSE]
    /\ response = NoResponse
    /\ published = [k \in KindSet |-> << >>]
    /\ srcState = [k \in KindSet |-> "unloaded"]
    /\ edits = 0
    /\ sg = NoCall
    /\ ce = NoClassification

Next ==
    \/ \E k \in KindSet : LoadOpen(k)
    \/ \E k \in KindSet : LoadRow(k)
    \/ Reload
    \/ \E client_id \in ClientIds : GetClientTrades(client_id)
    \/ \E client_id \in ClientIds : GetClientStatus(client_id)
    \/ \E client_id \in ClientIds : GetClientCreditLines(client_id)
    \/ HealthCheck
    \/ GetStats
    \/ \E k \in KindSet : \E file \in Files(k) : EditFile(k, file)

Spec == Init /\ [][Next]_vars

-----------------------------------------------------------------------------
(* get_client_trades alone, on every trade table of up to MaxTrades rows   *)
(* that load_trades_from_csv can leave behind                              *)

MaxTrades == 6

TradeNumbers == <<"T1", "T2", "T3", "T4", "T5", "T6", "T7", "T8", "T9">>

TradeChoices ==
    {<<<<"A">>, d>> : d \in {D1, DMin, DBad}} \cup {<<<<"B">>, D1>>}

\* the table loaded from a file whose i-th row has client id c[i][1] and trade
\* date c[i][2]
TableOf(c) ==
    [i \in DOMAIN c |->
        ParseTradeRow(TradeRow(<<TradeNumbers[i]>>, c[i][1], c[i][2]))]

InitTrades ==
    /\ \E n \in 0..MaxTrades : \E c \in [1..n -> TradeChoices] : TRADES = TableOf(c)
    /\ fs = [k \in KindSet |-> MissingFile]
    /\ CLIENT_STATUS = << >>
    /\ CREDIT_LINES = << >>
    /\ pc = Idle
    /\ success = [k \in KindSet |-> FALSE]
    /\ response = NoResponse
    /\ published = [k \in KindSet |-> IF k = "trades" THEN TRADES ELSE << >>]
    /\ srcState = [k \in KindSet |-> "dirty"]
    /\ edits = 0
    /\ sg = NoCall
    /\ ce = NoClassification

NextTrades == \E client_id \in ClientIds : GetClientTrades(client_id)

SpecTrades == InitTrades /\ [][NextTrades]_vars

-----------------------------------------------------------------------------
(* safe_get alone, on one field of a row                                   *)

MaxPad == 2

RECURSIVE Blanks(_)
Blanks(n) == IF n = 0 THEN << >> ELSE <<" ">> \o Blanks(n - 1)

FieldCores == {<< >>, <<"OK">>, <<"En", " ", "Curso">>, <<"0">>, <<"\t">>}

FieldValues ==
    {NoneVal} \cup
    {Blanks(l) \o core \o Blanks(r) : l \in 0..MaxPad, r \in 0..MaxPad, core \in FieldCores}

Defaults == {<< >>, <<"Unknown">>, <<"0">>}      \* lines 46, 184, 243

\* the row the call reads: the field under its column name, or no such column
RowOf(call) == IF call.present THEN (call.key :> call.value) ELSE << >>

InitSafeGet ==
    /\ \E value \in FieldValues, present \in BOOLEAN, default \in Defaults :
          sg = [key |-> "field", value |-> value, present |-> present,
                default |-> default, called |-> FALSE, out |-> << >>]
    /\ fs = [k \in KindSet |-> MissingFile]
    /\ TRADES = << >>
    /\ CLIENT_STATUS = << >>
    /\ CREDIT_LINES = << >>
    /\ pc = Idle
    /\ success = [k \in KindSet |-> FALSE]
    /\ response = NoResponse
    /\ published = [k \in KindSet |-> << >>]
    /\ srcState = [k \in KindSet |-> "unloaded"]
    /\ edits = 0
    /\ ce = NoClassification

SafeGetCall ==
    /\ ~sg.called
    /\ sg' = [sg EXCEPT !.called = TRUE,
                        !.out = safe_get(RowOf(sg), sg.key, sg.default)]
    /\ UNCHANGED <<fs, TRADES, CLIENT_STATUS, CREDIT_LINES, pc, success, response,
                   published, srcState, edits, ce>>

NextSafeGet == SafeGetCall

SpecSafeGet == InitSafeGet /\ [][NextSafeGet]_vars

-----------------------------------------------------------------------------
(* credit_percentage_to_emoji alone, on one percentage text.  A numeral is *)
(* put together from a sign, an integer part, a fraction and an exponent,  *)
(* each written with the number it stands for, so that the value of the    *)
(* text is known without parsing it.                                       *)

Signs == {<< >>, <<"+">>, <<"-">>}

IntParts ==
    { [text |-> << >>, val |-> 0],
      [text |-> <<"0">>, val |-> 0],
      [text |-> <<"8">>, val |-> 8],
      [text |-> <<"1", "0">>, val |-> 10],
      [text |-> <<"7", "9">>, val |-> 79],
      [text |-> <<"8", "0">>, val |-> 80],
      [text |-> <<"0", "8", "0">>, val |-> 80],
      [text |-> <<"9", "9">>, val |-> 99],
      [text |-> <<"1", "0", "0">>, val |-> 100],
      [text |-> <<"1", "0", "5">>, val |-> 105],
      [text |-> <<"8", "0", "0">>, val |-> 800],
      [text |-> <<"1", "0", "0", "0">>, val |-> 1000] }

\* a fraction, and the hundredths it stands for
FracParts ==
    { [text |-> << >>, val |-> 0],
      [text |-> <<".">>, val |-> 0],
      [text |-> <<".", "0">>, val |-> 0],
      [text |-> <<".", "8">>, val |-> 80],
      [text |-> <<".", "9">>, val |-> 90],
      [text |-> <<".", "9", "9">>, val |-> 99] }

\* an exponent, and the power of ten it stands for
ExpParts ==
    { [text |-> << >>, val |-> 0],
      [text |-> <<"e", "0">>, val |-> 0],
      [text |-> <<"e", "1">>, val |-> 1],
      [text |-> <<"E", "-", "1">>, val |-> 0 - 1],
      [text |-> <<"e", "+", "2">>, val |-> 2] }

\* float() wants a digit in the integer part or in the fraction
Numerals ==
    { d \in [kind : {"num"}, sign : Signs, ip : IntParts, fp : FracParts, ex : ExpParts] :
          d.ip.text # << >> \/ Len(d.fp.text) > 1 }

Infinities ==
    [kind : {"inf"}, sign : Signs, word : {<<"inf">>, <<"Inf">>, <<"INF">>, <<"Infinity">>}]

NotANumbers == [kind : {"nan"}, sign : Signs, word : {<<"nan">>, <<"NaN">>, <<"NAN">>}]

\* texts float() raises ValueError on, and None, on which it raises TypeError
Junk ==
    [kind : {"junk"},
     word : { << >>, <<"abc">>, <<"8", "0", "%">>, <<"1", ",", "5">>, <<"-", "-", "1">>,
              <<"-", " ", "1">>, <<"e", "5">>, <<".">>, <<"1", "e">>, <<"1", "e", "+">>,
              <<"8", " ", "0">>, <<"1", ".", "2", ".", "3">>, <<"+">>,
              <<"1", "e", "1", ".", "5">>, <<"0", "x", "5", "0">>, NoneVal }]

PercentageKinds == Numerals \cup Infinities \cup NotANumbers \cup Junk

TextOf(d) ==
    CASE d.kind = "num" -> d.sign \o d.ip.text \o d.fp.text \o d.ex.text
      [] d.kind \in {"inf", "nan"} -> d.sign \o d.word
      [] d.kind = "junk" -> d.word

InitClassify ==
    /\ \E d \in PercentageKinds, l \in 0..MaxPad, r \in 0..MaxPad :
          ce = [of |-> d,
                percentage_str |-> IF TextOf(d) = NoneVal THEN NoneVal
                                   ELSE Blanks(l) \o TextOf(d) \o Blanks(r),
                called |-> FALSE, out |-> << >>]
    /\ fs = [k \in KindSet |-> MissingFile]
    /\ TRADES = << >>
    /\ CLIENT_STATUS = << >>
    /\ CREDIT_LINES = << >>
    /\ pc = Idle
    /\ success = [k \in KindSet |-> FALSE]
    /\ response = NoResponse
    /\ published = [k \in KindSet |-> << >>]
    /\ srcState = [k \in KindSet |-> "unloaded"]
    /\ edits = 0
    /\ sg = NoCall

ClassifyCall ==
    /\ ~ce.called
    /\ ce' = [ce EXCEPT !.called = TRUE,
                        !.out = credit_percentage_to_emoji(ce.percentage_str)]
    /\ UNCHANGED <<fs, TRADES, CLIENT_STATUS, CREDIT_LINES, pc, success, response,
                   published, srcState, edits, sg>>

NextClassify == ClassifyCall

SpecClassify == InitClassify /\ [][NextClassify]_vars

-----------------------------------------------------------------------------
(* Properties                                                              *)

Matches(table, client_id) == {i \in 1..Len(table) : table[i].client_id = client_id}

Parsable(table, i) == StrptimeOk(table[i].trade_date)

\* The order C1 states, on rows i and j of the table: a later date first, a
\* row without a parsable date after every row with one, otherwise table order.
ClaimedBefore(table, i, j) ==
    \/ Parsable(table, i) /\ ~Parsable(table, j)
    \/ /\ Parsable(table, i) /\ Parsable(table, j)
       /\ Strptime(table[i].trade_date) > Strptime(table[j].trade_date)
    \/ /\ \/ ~Parsable(table, i) /\ ~Parsable(table, j)
          \/ /\ Parsable(table, i) /\ Parsable(table, j)
             /\ Strptime(table[i].trade_date) = Strptime(table[j].trade_date)
       /\ i < j

\* The same order with a row without a parsable date taken as dated 01/01/0001.
SentinelDate(table, i) ==
    IF Parsable(table, i) THEN Strptime(table[i].trade_date) ELSE DateTime(1, 1, 1)

SentinelBefore(table, i, j) ==
    \/ SentinelDate(table, i) > SentinelDate(table, j)
    \/ SentinelDate(table, i) = SentinelDate(table, j) /\ i < j

\* row i comes before row j, in the order C1 states ("claimed") or in the
\* order with the sentinel date ("sentinel")
Before(order, table, i, j) ==
    IF order = "claimed" THEN ClaimedBefore(table, i, j) ELSE SentinelBefore(table, i, j)

\* the first PageSize rows of the client in that order
Page(table, client_id, order) ==
    LET M == Matches(table, client_id)
        rank(i) == 1 + Cardinality({j \in M : Before(order, table, j, i)})
        n == IF Cardinality(M) < PageSize THEN Cardinality(M) ELSE PageSize
    IN  [r \in 1..n |-> table[CHOOSE i \in M : rank(i) = r]]

\* C1 (as stated): whenever a row of the trade table has the requested client
\* id, get_client_trades answers with at most 5 records of that client, the
\* first 5 (or all) of its rows by trade date descending, a row whose date
\* does not parse counting as older than every row whose date parses, rows
\* with equal dates in table order.
C1_NewestFiveUnparsableLast ==
    (response.op = "trades" /\ Matches(TRADES, response.client_id) # {}) =>
        /\ response.code = Ok
        /\ Len(response.body) <= PageSize
        /\ \A r \in 1..Len(response.body) :
               response.body[r].client_id = response.client_id
        /\ response.body = Page(TRADES, response.client_id, "claimed")

\* Companion of C1: the same statement with a row whose date does not parse
\* ordered as if dated 01/01/0001 (datetime.min), which is what the sort does.
TradesPageWithSentinel ==
    (response.op = "trades" /\ Matches(TRADES, response.client_id) # {}) =>
        /\ response.code = Ok
        /\ Len(response.body) <= PageSize
        /\ \A r \in 1..Len(response.body) :
               response.body[r].client_id = response.client_id
        /\ response.body = Page(TRADES, response.client_id, "sentinel")

\* more than PageSize rows of the client, some with equal dates, answered
TradesPageWitness ==
    /\ response.op = "trades"
    /\ Cardinality(Matches(TRADES, response.client_id)) > PageSize
    /\ \E i, j \in Matches(TRADES, response.client_id) :
           i # j /\ TRADES[i].trade_date = TRADES[j].trade_date

\* C3: get_client_trades answers 404 exactly when no row of the trade table
\* has a client id equal, character for character, to the requested one; when
\* a row has it the answer is 200 with at least one record.
C3_NotFoundIffNoMatch ==
    response.op = "trades" =>
        LET none == \A i \in 1..Len(TRADES) : TRADES[i].client_id # response.client_id
        IN  /\ response.code \in {Ok, NotFound}
            /\ response.code = NotFound <=> none
            /\ ~none => response.code = Ok /\ response.body # << >>

\* a 404 for an id that differs from the id of a row only by the blanks around it
C3_Witness ==
    /\ response.op = "trades"
    /\ response.code = NotFound
    /\ response.client_id = <<" ", "A", " ">>
    /\ \E i \in 1..Len(TRADES) : TRADES[i].client_id = <<"A">>

\* C9 (as stated): safe_get returns the default when the field is missing,
\* None, empty, or empty once the blanks around it are removed, and the value
\* without the blanks around it in every other case.
C9_DefaultWhenBlank ==
    sg.called =>
        sg.out = IF \/ ~sg.present
                    \/ sg.value = NoneVal
                    \/ sg.value = << >>
                    \/ Strip(sg.value) = << >>
                 THEN sg.default
                 ELSE Strip(sg.value)

\* Companion of C9: what safe_get returns for a field of blanks only is the
\* empty str, whatever the default; the rest is as C9 states.
SafeGetBlankIsEmpty ==
    sg.called =>
        sg.out = IF ~sg.present \/ sg.value = NoneVal \/ sg.value = << >>
                 THEN sg.default
                 ELSE Strip(sg.value)

-----------------------------------------------------------------------------
(* Properties of the loaders and of the handlers that read the tables      *)

QueryOps == {"trades", "status", "credit"}

\* the last load call of table k has returned, and its file is as that call
\* found it
Settled(k) == srcState[k] \in {"clean", "again"} /\ ~Loading(k)

KeyFields(k) == IF k = "trades" THEN {"client_id", "trade_number"} ELSE {"client_id"}

Columns(k) ==
    CASE k = "trades" ->
            {"trade_number", "client_id", "client_name", "trade_date", "start_date",
             "product", "direction", "currency_pair", "notional_amount", "price",
             "spread", "expiry_date"}
      [] k = "status" ->
            {"client_id", "client_name", "kyc_status", "onboarding_status",
             "ccg_status", "contract_status", "client_status"}
      [] k = "credit" ->
            {"client_id", "client_name", "spot_line_approved", "spot_line_used",
             "spot_line_pct", "fwd_line_approved", "fwd_line_used", "fwd_line_pct",
             "deriv_line_approved", "deriv_line_used", "deriv_line_pct"}

DefaultOf(k, f) ==
    IF k = "trades" \/ f \in {"client_id", "client_name"} THEN << >>
    ELSE IF k = "status" THEN <<"Unknown">> ELSE <<"0">>

\* the field is on the line and holds something
Filled(row, f) == f \in DOMAIN row /\ row[f] # NoneVal /\ row[f] # << >>

\* the row's key fields hold something, as written / once trimmed
RawKeys(k, row) == \A f \in KeyFields(k) : Filled(row, f)

HasKeys(k, row) == \A f \in KeyFields(k) : Filled(row, f) /\ Strip(row[f]) # << >>

\* the record of a row: each field trimmed, the default for a field that is
\* missing, None or empty
ExpectedRecord(k, row) ==
    [f \in Columns(k) |-> IF Filled(row, f) THEN Strip(row[f]) ELSE DefaultOf(k, f)]

\* the records of the rows of a file that have their keys, in file order
RECURSIVE ExpectedTable(_, _)
ExpectedTable(k, rows) ==
    IF rows = << >> THEN << >>
    ELSE (IF HasKeys(k, Head(rows)) THEN <<ExpectedRecord(k, Head(rows))>> ELSE << >>)
         \o ExpectedTable(k, Tail(rows))

C4_StatusNeverFails ==
    response.op = "status" =>
        LET M == Matches(CLIENT_STATUS, response.client_id)
            b == response.body
        IN  /\ response.code = Ok
            /\ M = {} =>
                  /\ b.client_id = response.client_id
                  /\ b.client_name = <<"Unknown">>
                  /\ \A f \in Columns("status") \ {"client_id", "client_name"} :
                         b[f] = <<"Unknown">>
                  /\ {b.kyc_emoji, b.onboarding_emoji, b.ccg_emoji, b.contract_emoji,
                      b.client_emoji} = {WHITE}
            /\ M # {} =>
                  \E i \in M :
                      /\ \A j \in M : i <= j
                      /\ \A f \in Columns("status") : b[f] = CLIENT_STATUS[i][f]

\* the placeholder, answered from a status table that holds other clients
C4_Witness ==
    /\ response.op = "status"
    /\ Matches(CLIENT_STATUS, response.client_id) = {}
    /\ Len(CLIENT_STATUS) > 1

\* C5 (as stated): for a client id no credit-line row has, get_client_credit_lines
\* answers 200 with every amount and percentage "0" and the white glyph on spot,
\* forward and derivatives.
C5_PlaceholderNeutral ==
    (response.op = "credit" /\ Matches(CREDIT_LINES, response.client_id) = {}) =>
        /\ response.code = Ok
        /\ \A f \in Columns("credit") \ {"client_id", "client_name"} :
               response.body[f] = <<"0">>
        /\ {response.body.spot_emoji, response.body.fwd_emoji,
            response.body.deriv_emoji} = {WHITE}

\* C5 (amended): ... and the green glyph, the classification of "0", on spot,
\* forward and derivatives.
C5_PlaceholderGreen ==
    (response.op = "credit" /\ Matches(CREDIT_LINES, response.client_id) = {}) =>
        /\ response.code = Ok
        /\ \A f \in Columns("credit") \ {"client_id", "client_name"} :
               response.body[f] = <<"0">>
        /\ {response.body.spot_emoji, response.body.fwd_emoji,
            response.body.deriv_emoji} = {GREEN}

\* the placeholder, answered from a credit-line table that holds other clients
C5_Witness ==
    /\ response.op = "credit"
    /\ Matches(CREDIT_LINES, response.client_id) = {}
    /\ Len(CREDIT_LINES) > 1

\* C6: once a load call has returned, the table is the built-in sample and
\* the call returned False if the file does not exist; the table is empty and
\* the call returned False if the file exists but opening or reading it
\* failed; otherwise the table is the records of the rows that were not
\* discarded, in file order, and the call returned True.  Nothing of the
\* table's previous contents is left in any of the three cases.
C6_LoadOutcome ==
    \A k \in KindSet :
        Settled(k) =>
            IF ~fs[k].exists
            THEN Table(k) = Sample(k) /\ ~success[k]
            ELSE IF ~fs[k].readable \/ fs[k].corrupt
            THEN Table(k) = << >> /\ ~success[k]
            ELSE /\ Table(k) = SelectSeq([i \in 1..Len(fs[k].rows) |->
                                             ParseRow(k, fs[k].rows[i])],
                                         LAMBDA record : Kept(k, record))
                 /\ success[k]

\* a reload has met a trades file that breaks after some rows were read
C6_Witness ==
    /\ pc = Idle
    /\ response.op = "reload"
    /\ fs["trades"].corrupt /\ fs["trades"].at > 1
    /\ TRADES = << >>
    /\ ~response.body.trades_success

\* C7: every record of the trade table has a client id and a trade number,
\* every record of the status and credit-line tables a client id, at every
\* moment; the same holds of every record a query returns; and a load that
\* succeeds keeps, in file order, one record for each row of the file that has
\* its key fields, so a discarded row takes no other row with it.
C7_KeysNeverEmpty ==
    /\ \A i \in 1..Len(TRADES) :
           TRADES[i].client_id # << >> /\ TRADES[i].trade_number # << >>
    /\ \A i \in 1..Len(CLIENT_STATUS) : CLIENT_STATUS[i].client_id # << >>
    /\ \A i \in 1..Len(CREDIT_LINES) : CREDIT_LINES[i].client_id # << >>
    /\ response.op = "trades" =>
           \A i \in 1..Len(response.body) :
               response.body[i].client_id # << >> /\ response.body[i].trade_number # << >>
    /\ response.op \in {"status", "credit"} => response.body.client_id # << >>
    /\ \A k \in KindSet :
           (Settled(k) /\ success[k]) =>
               LET good == SelectSeq(fs[k].rows, LAMBDA row : HasKeys(k, row))
               IN  /\ Len(Table(k)) = Len(good)
                   /\ \A n \in 1..Len(good) : \A f \in KeyFields(k) :
                          Table(k)[n][f] = Strip(good[n][f])

\* a trades file some of whose rows lack a key has been loaded
C7_Witness ==
    /\ pc = Idle
    /\ Settled("trades") /\ success["trades"]
    /\ \E i \in 1..Len(fs["trades"].rows) : ~HasKeys("trades", fs["trades"].rows[i])
    /\ Len(TRADES) > 1

\* the record agrees with the row on every field the row has something in
FieldsAgree(record, row) ==
    \A f \in DOMAIN row :
        (row[f] # NoneVal /\ Strip(row[f]) # << >>) => record[f] = Strip(row[f])

\* C8 (as stated): after a load that succeeded, a query by the client id of a
\* row of the file whose key fields are not empty returns a record whose
\* fields are the trimmed fields of that row.
C8_RowsQueryable ==
    \A k \in QueryOps :
        (response.op = k /\ Settled(k) /\ success[k]) =>
            \A i \in 1..Len(fs[k].rows) :
                LET row == fs[k].rows[i]
                IN  (RawKeys(k, row) /\ row.client_id = response.client_id) =>
                        /\ response.code = Ok
                        /\ IF k = "trades"
                           THEN \E n \in 1..Len(response.body) :
                                    FieldsAgree(response.body[n], row)
                           ELSE FieldsAgree(response.body, row)

\* C8 (amended): after a load that succeeded, a query by the trimmed client id
\* of a row whose key fields are not empty once trimmed returns the record of
\* that row (each field trimmed, the loader's default for a field that is
\* missing, None or empty), provided for get_client_trades that the row is among
\* the first 5 rows of the client in the order of the sort, and for
\* get_client_status and get_client_credit_lines that it is the first row of the
\* file with that client id and its key.
C8_TrimmedRowsQueryable ==
    \A k \in QueryOps :
        (response.op = k /\ Settled(k) /\ success[k]) =>
            LET E == ExpectedTable(k, fs[k].rows)
                M == Matches(E, response.client_id)
            IN  \A n \in M :
                    IF k = "trades"
                    THEN Cardinality({j \in M : SentinelBefore(E, j, n)}) < PageSize
                         => /\ response.code = Ok
                            /\ \E m \in 1..Len(response.body) : response.body[m] = E[n]
                    ELSE (\A j \in M : n <= j)
                         => \A f \in Columns(k) : response.body[f] = E[n][f]

\* a client with more rows than a page, queried after its file was loaded
C8_Witness ==
    /\ response.op = "trades"
    /\ Settled("trades") /\ success["trades"]
    /\ Cardinality(Matches(ExpectedTable("trades", fs["trades"].rows),
                           response.client_id)) > PageSize
    /\ Len(response.body) = PageSize

\* C10: a load call that finds the file as the previous load call of the same
\* table left it leaves the table with the same records in the same order, of
\* the same length, and returns the same value.
C10_ReloadIdempotent ==
    [][\A k \in KindSet :
          (/\ Loading(k) /\ srcState[k] \in {"clean", "again"}
           /\ pc'.at = "idle" \/ pc'.load # pc.load) =>
              /\ Table(k)' = published[k]
              /\ Len(Table(k)') = Len(published[k])
              /\ success'[k] = success[k]]_vars

\* a trades file with rows has been loaded twice in a row
C10_Witness ==
    /\ srcState["trades"] = "again"
    /\ fs["trades"].readable /\ ~fs["trades"].corrupt
    /\ Len(TRADES) > 1
    /\ pc = Idle


\* what a load call of table k makes of the file as it is: the table it leaves
\* and the value it returns
LoadResult(k) ==
    IF ~fs[k].exists THEN [table |-> Sample(k), ret |-> FALSE]
    ELSE IF ~fs[k].readable \/ fs[k].corrupt THEN [table |-> << >>, ret |-> FALSE]
    ELSE [table |-> ExpectedTable(k, fs[k].rows), ret |-> TRUE]

\* C11: a step of the load of one table, whether the load succeeds or fails,
\* leaves the other two tables as they are; and when reload_data returns,
\* whatever became of the trades load, the status and credit-line loads have
\* run to their end, each with the outcome of its own file, and the answer
\* reports the three return values and the three lengths.
C11_LoadFailuresLocal ==
    [][/\ \A k \in KindSet :
              Loading(k) => \A j \in KindSet \ {k} : Table(j)' = Table(j)
       /\ (pc.at = "reload" /\ pc'.at = "idle") =>
              /\ response'.op = "reload"
              /\ response'.body.trades_success = LoadResult("trades").ret
              /\ response'.body.status_success = LoadResult("status").ret
              /\ response'.body.credit_success = LoadResult("credit").ret
              /\ CLIENT_STATUS' = LoadResult("status").table
              /\ CREDIT_LINES' = LoadResult("credit").table
              /\ response'.body.total_statuses = Len(LoadResult("status").table)
              /\ response'.body.total_credit_lines = Len(LoadResult("credit").table)]_vars

\* a reload whose trades load failed on a file it could not read, whose status
\* load succeeded on a file with rows and whose credit-line load fell back on
\* the sample
C11_Witness ==
    /\ pc = Idle
    /\ response.op = "reload"
    /\ fs["trades"].exists /\ ~response.body.trades_success /\ TRADES = << >>
    /\ response.body.status_success /\ Len(CLIENT_STATUS) > 1
    /\ ~response.body.credit_success /\ CREDIT_LINES = Sample("credit")


\* the numeral stands for a number >= n: its value times 1000 is
\* (integer part * 100 + hundredths) * 10^(exponent + 1)
AtLeast(d, n) ==
    LET hundredths == d.ip.val * 100 + d.fp.val
        shift == CASE d.ex.val = 0 - 1 -> 1 [] d.ex.val = 0 -> 10
                   [] d.ex.val = 1 -> 100 [] d.ex.val = 2 -> 1000
    IN  d.sign # <<"-">> /\ hundredths * shift >= n * 1000

\* the glyph of a text that stands for a number, finite or infinite
GlyphOfNumber(d) ==
    IF d.kind = "inf" THEN (IF d.sign = <<"-">> THEN GREEN ELSE RED)
    ELSE IF AtLeast(d, 100) THEN RED
    ELSE IF AtLeast(d, 80) THEN AMBER
    ELSE GREEN

\* C12 (as stated): the glyph depends on the percentage text alone: red for a
\* text that stands for a number >= 100, amber for a number >= 80 and < 100,
\* green for a number < 80, and white for a text that does not stand for a
\* number ("nan", not a number, among them).
C12_ClassificationByNumber ==
    ce.called =>
        ce.out = IF ce.of.kind \in {"num", "inf"} THEN GlyphOfNumber(ce.of) ELSE WHITE

\* what the code does: as C12, but "nan" in any case, with or without a sign
\* and blanks around it, is green
ClassificationNanGreen ==
    ce.called =>
        ce.out = CASE ce.of.kind \in {"num", "inf"} -> GlyphOfNumber(ce.of)
                   [] ce.of.kind = "nan" -> GREEN
                   [] ce.of.kind = "junk" -> WHITE

\* each of the four glyphs is the answer to some call; here amber, for a
\* numeral with a fraction and an exponent
ClassificationWitness ==
    /\ ce.called
    /\ ce.of.kind = "num" /\ ce.of.fp.val > 0 /\ ce.of.ex.val # 0
    /\ ce.out = AMBER


\* C13: a step of get_client_trades, get_client_status, get_client_credit_lines,
\* get_stats or health_check leaves each of the three tables with the same
\* records in the same order; and whenever the process waits for a request,
\* whatever queries it has answered since, each table is as the last load call
\* of that table left it.
C13_QueriesLeaveTables ==
    [][/\ (pc.at = "idle" /\ pc'.at = "idle" /\ fs' = fs) =>
              <<TRADES, CLIENT_STATUS, CREDIT_LINES>>' =
              <<TRADES, CLIENT_STATUS, CREDIT_LINES>>
       /\ pc'.at = "idle" =>
              <<TRADES, CLIENT_STATUS, CREDIT_LINES>>' =
              <<published["trades"], published["status"], published["credit"]>>']_vars

\* get_client_trades has answered with the client's rows in another order than
\* the table holds them, and the table is as the load left it
C13_Witness ==
    /\ response.op = "trades" /\ response.code = Ok
    /\ response.body # Take(ClientTrades(TRADES, response.client_id), PageSize)
    /\ TRADES = published["trades"]
    /\ Len(TRADES) > Len(response.body)

=============================================================================
